---- MODULE Spec2Model ----
(***************************************************************************)
(* IIRAF: the index build / staleness detection / reload protocol around   *)
(* the vector index (src/src/build_index.py, src/src/query_retrieval.py,   *)
(* src/src/app.py), and the search response assembly.                      *)
(*                                                                         *)
(* Spec       : the server. The data files, the three files of the index   *)
(*              store, the retriever's in-memory index, the construction   *)
(*              of the retriever, /api/index/refresh and build_index.py    *)
(*              run from a shell, each step by step.                       *)
(* SpecStale  : the staleness tracking. The data files written, replaced   *)
(*              and removed while build_index() runs, and the status       *)
(*              queries.                                                   *)
(* SpecSearch : /api/search and get_mapped_kb_articles as functions of the *)
(*              data files and of the hits of the vector search.           *)
(*                                                                         *)
(* A file write is one step; a handler is a sequence of steps, and the     *)
(* steps of concurrent handlers and of the environment interleave.         *)
(***************************************************************************)
EXTENDS Integers, Sequences, FiniteSets

VARIABLES
    clock,      \* the wall clock (time.time / datetime.now / a new mtime)
    budget,     \* changes of the data files the environment may still make
    files,      \* the monitored data files: [exists, mtime, rows]
    indexFile,  \* build_index.INDEX_PATH      (iiraf_index.faiss)
    metaFile,   \* build_index.META_PATH       (iiraf_meta.pkl)
    tsFile,     \* build_index.TIMESTAMP_PATH  (index_metadata.json)
    deploy,     \* where the repository lives, and what lies at the retriever's paths
    retriever,  \* app.retriever: [defined, index, metadata]
    ctor,       \* QueryRetriever.__init__ of the server: its argument and progress
    proc,       \* per thread: position, operation, locals
    answer,     \* the answer the step just taken returned to its caller, if any
    nextBid,    \* number of the next build_index() call
    hist,       \* history of the builds: what the last completed build recorded
    sIncidents, \* SpecSearch: rows of incidents.csv
    sKbs,       \* SpecSearch: rows of kb_articles.csv
    sHits,      \* SpecSearch: what QueryRetriever.search returned
    sIds,       \* SpecSearch: the incident_ids argument
    sOut,       \* SpecSearch: the result of the operation applied
    call,       \* a call of a function of the program: its inputs and what it returned
    predictor   \* SpecSeverity: the SeverityPredictor and its saved files

envVars == <<clock, budget, files>>
storeVars == <<indexFile, metaFile, tsFile>>
lifeVars == <<clock, budget, files, indexFile, metaFile, tsFile, deploy, retriever, ctor,
              proc, answer, nextBid, hist>>
searchVars == <<sIncidents, sKbs, sHits, sIds, sOut, call, predictor>>
vars == <<clock, budget, files, indexFile, metaFile, tsFile, deploy, retriever, ctor,
          proc, answer, nextBid, hist, sIncidents, sKbs, sHits, sIds, sOut, call,
          predictor>>

----
\* Bounds of the model.

\* Changes of the data files while the staleness tracking is observed.
MaxChanges == 2
\* Changes of the data files while the server is observed.
MaxTouches == 1
\* build_index() calls.
MaxBuilds == 2
\* Rows a data file holds.
MaxRows == 2

----
\* The data files and the index store.

DATA_FILES == {"incidents.csv", "kb_articles.csv", "patterns.csv"}

\* Python's None for a timestamp.
NoneTs == -1

\* A file that does not exist at a path of the index store.
NoFile == [bid |-> -1, n |-> 0]

\* json absent at TIMESTAMP_PATH.
NoMeta == [last_build_time |-> NoneTs,
           data_file_timestamps |-> [f \in DATA_FILES |-> NoneTs],
           item_count |-> 0]

AbsentFile == [exists |-> FALSE, mtime |-> 0, rows |-> 0]

\* get_data_timestamps: the mtime of each data file, None when it does not exist.
GetDataTimestamps ==
    [f \in DATA_FILES |-> IF files[f].exists THEN files[f].mtime ELSE NoneTs]

\* save_index_metadata recording no timestamp of the data files.
SaveIndexMetadataNoTimestamps(item_count) ==
    [last_build_time |-> clock,
     data_file_timestamps |-> [f \in DATA_FILES |-> NoneTs],
     item_count |-> item_count]


\* save_index_metadata(item_count): the record written to TIMESTAMP_PATH.
SaveIndexMetadata(item_count) ==
    [last_build_time |-> clock,
     data_file_timestamps |-> GetDataTimestamps,
     item_count |-> item_count]

\* load_index_metadata: the record, or None (NoMeta) when the file does not exist.
LoadIndexMetadata == tsFile

\* is_index_stale comparing each mtime with the time of the last build.
IsIndexStaleBuildTime ==
    IF indexFile = NoFile \/ metaFile = NoFile THEN TRUE
    ELSE IF LoadIndexMetadata = NoMeta THEN TRUE
    ELSE \E f \in DATA_FILES :
            /\ GetDataTimestamps[f] # NoneTs
            /\ GetDataTimestamps[f] > LoadIndexMetadata.last_build_time

\* is_index_stale.
IsIndexStale ==
    IF indexFile = NoFile \/ metaFile = NoFile THEN TRUE
    ELSE IF LoadIndexMetadata = NoMeta THEN TRUE
    ELSE \E f \in DATA_FILES :
            /\ GetDataTimestamps[f] # NoneTs
            /\ \/ LoadIndexMetadata.data_file_timestamps[f] = NoneTs
               \/ GetDataTimestamps[f] > LoadIndexMetadata.data_file_timestamps[f]

\* get_index_info.
GetIndexInfo ==
    IF LoadIndexMetadata = NoMeta
    THEN [exists |-> FALSE, is_stale |-> TRUE, message |-> "Index not built yet",
          last_build_time |-> NoneTs, item_count |-> -1]
    ELSE [exists |-> TRUE, is_stale |-> IsIndexStale,
          message |-> IF IsIndexStale THEN "Index is stale - data files modified"
                      ELSE "Index is current",
          last_build_time |-> LoadIndexMetadata.last_build_time,
          item_count |-> LoadIndexMetadata.item_count]

----
\* The processes: the server's start-up thread, a request thread, and a shell
\* in which build_index.py is run.

Workers == {"w1"}
Procs == {"main"} \cup Workers

\* A file left at the retriever's paths by something other than this repository.
ForeignFile == [bid |-> 0, n |-> 1]

\* The deployments. The retriever's INDEX_PATH / META_PATH are absolute paths
\* of one machine (query_retrieval.py:17-18); build_index's are relative to the
\* repository (build_index.py:11-14). They name the same files only when the
\* repository lives at that place; elsewhere the retriever's paths hold nothing,
\* or an index with its metadata.
Deployments ==
    {[samePaths |-> TRUE, fIndex |-> NoFile, fMeta |-> NoFile],
     [samePaths |-> FALSE, fIndex |-> NoFile, fMeta |-> NoFile],
     [samePaths |-> FALSE, fIndex |-> ForeignFile, fMeta |-> ForeignFile]}

\* The file at query_retrieval.INDEX_PATH.
RetrieverIndexFile == IF deploy.samePaths THEN indexFile ELSE deploy.fIndex

\* The file at query_retrieval.META_PATH.
RetrieverMetaFile == IF deploy.samePaths THEN metaFile ELSE deploy.fMeta

NoRetriever == [defined |-> FALSE, index |-> NoFile, metadata |-> NoFile]

NoInfo == [exists |-> FALSE, is_stale |-> FALSE, message |-> "",
           last_build_time |-> NoneTs, item_count |-> -1]

\* No answer. The fields of an answer: of a status query, status and info; of
\* refresh_index, success, message and item_count, together with the
\* build_index() call the request made (bid), how that call ended (built), how
\* its reload_index() call ended (reload), the files reload_index read
\* (reads) and the info reload_index returned.
NoAnswer == [kind |-> "none", status |-> "", success |-> FALSE, message |-> "",
             item_count |-> -1, info |-> NoInfo,
             bid |-> 0, built |-> "no", reload |-> "no", reads |-> 0]

IdleProc == [pc |-> "idle", op |-> "none", bid |-> 0, n |-> 0, built |-> "no"]

\* The rows a written data file may hold (only the number of incidents varies).
RowChoices(f) == IF f = "incidents.csv" THEN 1..MaxRows ELSE {1}

\* No function was called.
NoCall == [op |-> "none"]

\* No SeverityPredictor is looked at.
NoPredictor == [is_trained |-> FALSE]

NoHist == [saves |-> 0, n |-> 0,
           recorded |-> [f \in DATA_FILES |-> NoneTs],
           modifiedSince |-> FALSE]

\* What both specifications start from: the data files in place (patterns.csv
\* not yet), written before the clock's first value; no index built.
InitStore ==
    /\ clock = 2
    /\ indexFile = NoFile
    /\ metaFile = NoFile
    /\ tsFile = NoMeta
    /\ retriever = NoRetriever
    /\ answer = NoAnswer
    /\ nextBid = 1
    /\ hist = NoHist

InitCommon ==
    /\ InitStore
    /\ files = [f \in DATA_FILES |->
                  IF f = "patterns.csv" THEN AbsentFile
                  ELSE [exists |-> TRUE, mtime |-> 0, rows |-> 1]]
    /\ sIncidents = <<>>
    /\ sKbs = <<>>
    /\ sHits = <<>>
    /\ sIds = {}
    /\ sOut = [op |-> "none", res |-> <<>>]
    /\ call = NoCall
    /\ predictor = NoPredictor

NoCtor == [auto |-> FALSE, staleAtCheck |-> "unknown", buildCalled |-> FALSE,
           loadBegun |-> FALSE, failedAt |-> "none"]

\* The server starts: app.py's module code constructs the retriever.
Init ==
    /\ InitCommon
    /\ budget = MaxTouches
    /\ deploy \in Deployments
    /\ \E a \in BOOLEAN : ctor = [NoCtor EXCEPT !.auto = a]
    /\ proc = [p \in Procs |->
                 IF p = "main" THEN [IdleProc EXCEPT !.pc = "check", !.op = "init"]
                 ELSE IdleProc]

----
\* The environment: the data files change.

\* Time passes and a data file is written in place (or created): its mtime is
\* the time of the write.
WriteFile(f) ==
    /\ budget > 0
    /\ budget' = budget - 1
    /\ clock' = clock + 1
    /\ \E r \in RowChoices(f) :
         files' = [files EXCEPT ![f] = [exists |-> TRUE, mtime |-> clock + 1, rows |-> r]]
    /\ hist' = [hist EXCEPT !.modifiedSince = TRUE]
    /\ answer' = NoAnswer
    /\ UNCHANGED <<storeVars, deploy, retriever, ctor, proc, nextBid>>
    /\ UNCHANGED searchVars

\* A data file is put in place with the mtime it had elsewhere (a copy that
\* keeps the modification time, an archive extracted, a backup restored).
CopyFile(f) ==
    /\ budget > 0
    /\ budget' = budget - 1
    /\ clock' = clock
    /\ \E r \in RowChoices(f), t \in 0..clock :
         files' = [files EXCEPT ![f] = [exists |-> TRUE, mtime |-> t, rows |-> r]]
    /\ hist' = [hist EXCEPT !.modifiedSince = TRUE]
    /\ answer' = NoAnswer
    /\ UNCHANGED <<storeVars, deploy, retriever, ctor, proc, nextBid>>
    /\ UNCHANGED searchVars

\* A data file is removed.
DeleteFile(f) ==
    /\ files[f].exists
    /\ budget > 0
    /\ budget' = budget - 1
    /\ clock' = clock
    /\ files' = [files EXCEPT ![f] = AbsentFile]
    /\ answer' = NoAnswer
    /\ UNCHANGED <<storeVars, deploy, retriever, ctor, proc, nextBid, hist>>
    /\ UNCHANGED searchVars

\* A file at the retriever's paths is removed (x: "index" or "meta").
RemoveStoreFile(x) ==
    /\ budget > 0
    /\ budget' = budget - 1
    /\ clock' = clock
    /\ IF deploy.samePaths
       THEN /\ IF x = "index" THEN indexFile # NoFile ELSE metaFile # NoFile
            /\ indexFile' = IF x = "index" THEN NoFile ELSE indexFile
            /\ metaFile' = IF x = "meta" THEN NoFile ELSE metaFile
            /\ deploy' = deploy
       ELSE /\ IF x = "index" THEN deploy.fIndex # NoFile ELSE deploy.fMeta # NoFile
            /\ deploy' = IF x = "index" THEN [deploy EXCEPT !.fIndex = NoFile]
                          ELSE [deploy EXCEPT !.fMeta = NoFile]
            /\ UNCHANGED <<indexFile, metaFile>>
    /\ answer' = NoAnswer
    /\ UNCHANGED <<files, tsFile, retriever, ctor, proc, nextBid, hist>>
    /\ UNCHANGED searchVars

----
\* build_index(), called by the constructor, by /api/index/refresh and from the
\* command line. The steps of one call; p is the calling thread.

\* The except clause of refresh_index letting the exception through.
RefreshExceptPropagates(p, built) ==
    [NoAnswer EXCEPT !.kind = "exception", !.bid = proc[p].bid, !.built = built]

\* The except clause of refresh_index (app.py:157-161).
RefreshExcept(p, built) ==
    [NoAnswer EXCEPT !.kind = "refresh", !.success = FALSE,
                     !.message = "Error refreshing index",
                     !.bid = proc[p].bid, !.built = built]

\* The caller going on after build_index() as if it had returned.
AfterBuildIgnoresRaise(p, outcome) ==
    IF proc[p].op = "init"
    THEN [proc[p] EXCEPT !.pc = "readIndex", !.built = outcome]
    ELSE IF proc[p].op = "refresh"
    THEN [proc[p] EXCEPT !.pc = "r_index", !.built = outcome]
    ELSE IdleProc

\* The constructor letting the exception of build_index() through.
AfterBuildInitRaises(p, outcome) ==
    IF proc[p].op = "init"
    THEN [proc[p] EXCEPT !.pc = IF outcome = "raised" THEN "failed" ELSE "readIndex",
                         !.built = outcome]
    ELSE IF proc[p].op = "refresh" /\ outcome = "returned"
    THEN [proc[p] EXCEPT !.pc = "r_index", !.built = outcome]
    ELSE IdleProc

\* Where the caller goes on after build_index() returned or raised.
\*   __init__ : to loading the index, an exception being swallowed
\*              (query_retrieval.py:31-39);
\*   refresh  : to reload_index() after a return (app.py:136-139), to the except
\*              clause after an exception (app.py:157);
\*   command line : the process ends.
AfterBuild(p, outcome) ==
    IF proc[p].op = "init"
    THEN [proc[p] EXCEPT !.pc = "readIndex", !.built = outcome]
    ELSE IF proc[p].op = "refresh" /\ outcome = "returned"
    THEN [proc[p] EXCEPT !.pc = "r_index", !.built = outcome]
    ELSE IdleProc

\* What the caller answers when build_index() ends.
AnswerAfterBuild(p, outcome) ==
    IF proc[p].op = "refresh" /\ outcome = "raised"
    THEN RefreshExcept(p, outcome)
    ELSE NoAnswer

\* load_incidents / load_kb_articles raise FileNotFoundError.
BuildLoadMissing(p) ==
    /\ proc[p].pc = "b_load"
    /\ ~files["incidents.csv"].exists \/ ~files["kb_articles.csv"].exists
    /\ proc' = [proc EXCEPT ![p] = AfterBuild(p, "raised")]
    /\ answer' = AnswerAfterBuild(p, "raised")
    /\ UNCHANGED <<envVars, storeVars, deploy, retriever, ctor, nextBid, hist>>
    /\ UNCHANGED searchVars

\* build_index saving its metadata before the step that raises.
BuildEncodeRaisesAfterSave(p) ==
    /\ proc[p].pc = "b_load"
    /\ files["incidents.csv"].exists /\ files["kb_articles.csv"].exists
    /\ indexFile # NoFile /\ metaFile # NoFile
    /\ tsFile' = SaveIndexMetadata(hist.n)
    /\ proc' = [proc EXCEPT ![p] = IdleProc]
    /\ answer' = NoAnswer
    /\ UNCHANGED <<envVars, indexFile, metaFile, deploy, retriever, ctor, nextBid, hist>>
    /\ UNCHANGED searchVars

\* The data is loaded, but loading the embedding model or encoding raises.
BuildEncodeRaises(p) ==
    /\ proc[p].pc = "b_load"
    /\ files["incidents.csv"].exists /\ files["kb_articles.csv"].exists
    /\ proc' = [proc EXCEPT ![p] = AfterBuild(p, "raised")]
    /\ answer' = AnswerAfterBuild(p, "raised")
    /\ UNCHANGED <<envVars, storeVars, deploy, retriever, ctor, nextBid, hist>>
    /\ UNCHANGED searchVars

\* The data is loaded and embedded: one item per incident, then one per KB article.
BuildLoad(p) ==
    /\ proc[p].pc = "b_load"
    /\ files["incidents.csv"].exists /\ files["kb_articles.csv"].exists
    /\ proc' = [proc EXCEPT ![p].pc = "b_windex",
                            ![p].n = files["incidents.csv"].rows
                                     + files["kb_articles.csv"].rows]
    /\ answer' = NoAnswer
    /\ UNCHANGED <<envVars, storeVars, deploy, retriever, ctor, nextBid, hist>>
    /\ UNCHANGED searchVars

\* faiss.write_index(index, INDEX_PATH).
BuildWriteIndex(p) ==
    /\ proc[p].pc = "b_windex"
    /\ indexFile' = [bid |-> proc[p].bid, n |-> proc[p].n]
    /\ proc' = [proc EXCEPT ![p].pc = "b_wmeta"]
    /\ answer' = NoAnswer
    /\ UNCHANGED <<envVars, metaFile, tsFile, deploy, retriever, ctor, nextBid, hist>>
    /\ UNCHANGED searchVars

\* pickle.dump(metadata, META_PATH).
BuildWriteMeta(p) ==
    /\ proc[p].pc = "b_wmeta"
    /\ metaFile' = [bid |-> proc[p].bid, n |-> proc[p].n]
    /\ proc' = [proc EXCEPT ![p].pc = "b_save"]
    /\ answer' = NoAnswer
    /\ UNCHANGED <<envVars, indexFile, tsFile, deploy, retriever, ctor, nextBid, hist>>
    /\ UNCHANGED searchVars

\* save_index_metadata(len(metadata)) and the return of build_index.
BuildSave(p) ==
    /\ proc[p].pc = "b_save"
    /\ tsFile' = SaveIndexMetadata(proc[p].n)
    /\ hist' = [saves |-> hist.saves + 1, n |-> proc[p].n,
                recorded |-> GetDataTimestamps, modifiedSince |-> FALSE]
    /\ proc' = [proc EXCEPT ![p] = AfterBuild(p, "returned")]
    /\ answer' = AnswerAfterBuild(p, "returned")
    /\ UNCHANGED <<envVars, indexFile, metaFile, deploy, retriever, ctor, nextBid>>
    /\ UNCHANGED searchVars

\* python build_index.py, at any time.
StartCli(w) ==
    /\ proc[w].pc = "idle"
    /\ nextBid <= MaxBuilds
    /\ nextBid' = nextBid + 1
    /\ proc' = [proc EXCEPT ![w] = [IdleProc EXCEPT !.pc = "b_load", !.op = "cli",
                                                    !.bid = nextBid]]
    /\ answer' = NoAnswer
    /\ UNCHANGED <<envVars, storeVars, deploy, retriever, ctor, hist>>
    /\ UNCHANGED searchVars

----
\* QueryRetriever.__init__(auto_rebuild), run once by the server's start-up
\* (app.py:27-35); ctor.auto is its argument.

\* The condition of line 28 tested on auto_rebuild alone.
InitRebuildsUnchecked == ctor.auto

\* Line 28: if auto_rebuild and is_index_stale().
InitRebuilds == ctor.auto /\ IsIndexStale

\* An exception leaves __init__: app.py's try/except (lines 27-35) leaves the
\* name retriever unbound.
InitFailed(where) ==
    /\ ctor' = [ctor EXCEPT !.failedAt = where]
    /\ retriever' = NoRetriever
    /\ proc' = [proc EXCEPT !["main"].pc = "failed"]

InitCheck ==
    /\ proc["main"].pc = "check"
    /\ IF InitRebuilds
       THEN /\ nextBid <= MaxBuilds
            /\ nextBid' = nextBid + 1
            /\ proc' = [proc EXCEPT !["main"].pc = "b_load", !["main"].bid = nextBid]
            /\ ctor' = [ctor EXCEPT !.staleAtCheck = IF IsIndexStale THEN "yes" ELSE "no",
                                    !.buildCalled = TRUE]
       ELSE /\ nextBid' = nextBid
            /\ proc' = [proc EXCEPT !["main"].pc = "readIndex"]
            /\ ctor' = [ctor EXCEPT !.staleAtCheck = IF IsIndexStale THEN "yes" ELSE "no"]
    /\ answer' = NoAnswer
    /\ UNCHANGED <<envVars, storeVars, deploy, retriever, hist>>
    /\ UNCHANGED searchVars

\* self.index = faiss.read_index(INDEX_PATH).
InitReadIndex ==
    /\ proc["main"].pc = "readIndex"
    /\ IF RetrieverIndexFile = NoFile
       THEN InitFailed("index")
       ELSE /\ retriever' = [retriever EXCEPT !.index = RetrieverIndexFile]
            /\ proc' = [proc EXCEPT !["main"].pc = "readMeta"]
            /\ ctor' = [ctor EXCEPT !.loadBegun = TRUE]
    /\ answer' = NoAnswer
    /\ UNCHANGED <<envVars, storeVars, deploy, nextBid, hist>>
    /\ UNCHANGED searchVars

\* self.metadata = pickle.load(META_PATH).
InitReadMeta ==
    /\ proc["main"].pc = "readMeta"
    /\ IF RetrieverMetaFile = NoFile
       THEN InitFailed("meta")
       ELSE /\ retriever' = [retriever EXCEPT !.metadata = RetrieverMetaFile]
            /\ proc' = [proc EXCEPT !["main"].pc = "model"]
            /\ ctor' = ctor
    /\ answer' = NoAnswer
    /\ UNCHANGED <<envVars, storeVars, deploy, nextBid, hist>>
    /\ UNCHANGED searchVars

\* self.model = SentenceTransformer('all-MiniLM-L6-v2') raises (the library
\* loads, or downloads, the model).
InitModelRaises ==
    /\ proc["main"].pc = "model"
    /\ InitFailed("model")
    /\ answer' = NoAnswer
    /\ UNCHANGED <<envVars, storeVars, deploy, nextBid, hist>>
    /\ UNCHANGED searchVars

\* The model is loaded, get_index_info() is printed, the retriever is bound.
InitDone ==
    /\ proc["main"].pc = "model"
    /\ retriever' = [retriever EXCEPT !.defined = TRUE]
    /\ proc' = [proc EXCEPT !["main"].pc = "done"]
    /\ answer' = [NoAnswer EXCEPT !.kind = "init", !.info = GetIndexInfo]
    /\ UNCHANGED <<envVars, storeVars, deploy, ctor, nextBid, hist>>
    /\ UNCHANGED searchVars

\* The server answers requests once app.py's module code has run.
Serving == proc["main"].pc \in {"done", "failed"}

----
\* POST /api/index/refresh (refresh_index) and QueryRetriever.reload_index.

\* reload_index letting the exception of a failed read through.
ReloadExceptRaises == "raised"

\* The except clause of reload_index (query_retrieval.py:165-170): the
\* exception becomes the dict {success: False, message}.
ReloadExcept == "failed"

\* refresh_index answering success whatever reload_index returned.
RefreshAnswerAlways(w, reload, reads, info) ==
    [NoAnswer EXCEPT !.kind = "refresh", !.success = TRUE,
                     !.message = "Index rebuilt and reloaded successfully",
                     !.item_count = proc[w].n, !.info = info,
                     !.bid = proc[w].bid, !.built = proc[w].built,
                     !.reload = reload, !.reads = reads]

\* The answer of refresh_index once reload_index() ended (app.py:139-161):
\* reload is "ok" or "failed" as reload_result.success, "raised" had
\* reload_index raised; reads counts the files reload_index read.
RefreshAnswer(w, reload, reads, info) ==
    IF reload = "ok"
    THEN [NoAnswer EXCEPT !.kind = "refresh", !.success = TRUE,
                          !.message = "Index rebuilt and reloaded successfully",
                          !.item_count = proc[w].n, !.info = info,
                          !.bid = proc[w].bid, !.built = proc[w].built,
                          !.reload = reload, !.reads = reads]
    ELSE IF reload = "failed"
    THEN [NoAnswer EXCEPT !.kind = "refresh", !.success = FALSE,
                          !.message = "Index rebuilt but failed to reload",
                          !.bid = proc[w].bid, !.built = proc[w].built,
                          !.reload = reload, !.reads = reads]
    ELSE [RefreshExcept(w, proc[w].built) EXCEPT !.reload = reload, !.reads = reads]

StartRefresh(w) ==
    /\ Serving
    /\ proc[w].pc = "idle"
    /\ nextBid <= MaxBuilds
    /\ nextBid' = nextBid + 1
    /\ proc' = [proc EXCEPT ![w] = [IdleProc EXCEPT !.pc = "b_load", !.op = "refresh",
                                                    !.bid = nextBid]]
    /\ answer' = NoAnswer
    /\ UNCHANGED <<envVars, storeVars, deploy, retriever, ctor, hist>>
    /\ UNCHANGED searchVars

\* retriever.reload_index() with the name retriever unbound: NameError, caught
\* by the handler's except clause.
RefreshNoRetriever(w) ==
    /\ proc[w].pc = "r_index"
    /\ ~retriever.defined
    /\ proc' = [proc EXCEPT ![w] = IdleProc]
    /\ answer' = RefreshExcept(w, proc[w].built)
    /\ UNCHANGED <<envVars, storeVars, deploy, retriever, ctor, nextBid, hist>>
    /\ UNCHANGED searchVars

\* reload_index: self.index = faiss.read_index(INDEX_PATH).
ReloadReadIndex(w) ==
    /\ proc[w].pc = "r_index"
    /\ retriever.defined
    /\ IF RetrieverIndexFile = NoFile
       THEN /\ retriever' = retriever
            /\ proc' = [proc EXCEPT ![w] = IdleProc]
            /\ answer' = RefreshAnswer(w, ReloadExcept, 0, NoInfo)
       ELSE /\ retriever' = [retriever EXCEPT !.index = RetrieverIndexFile]
            /\ proc' = [proc EXCEPT ![w].pc = "r_meta"]
            /\ answer' = NoAnswer
    /\ UNCHANGED <<envVars, storeVars, deploy, ctor, nextBid, hist>>
    /\ UNCHANGED searchVars

\* reload_index: self.metadata = pickle.load(META_PATH).
ReloadReadMeta(w) ==
    /\ proc[w].pc = "r_meta"
    /\ IF RetrieverMetaFile = NoFile
       THEN /\ retriever' = retriever
            /\ proc' = [proc EXCEPT ![w] = IdleProc]
            /\ answer' = RefreshAnswer(w, ReloadExcept, 1, NoInfo)
       ELSE /\ retriever' = [retriever EXCEPT !.metadata = RetrieverMetaFile]
            /\ proc' = [proc EXCEPT ![w].pc = "r_info"]
            /\ answer' = NoAnswer
    /\ UNCHANGED <<envVars, storeVars, deploy, ctor, nextBid, hist>>
    /\ UNCHANGED searchVars

\* reload_index: info = get_index_info(), return success; refresh_index answers.
ReloadDone(w) ==
    /\ proc[w].pc = "r_info"
    /\ proc' = [proc EXCEPT ![w] = IdleProc]
    /\ answer' = RefreshAnswer(w, "ok", 2, GetIndexInfo)
    /\ UNCHANGED <<envVars, storeVars, deploy, retriever, ctor, nextBid, hist>>
    /\ UNCHANGED searchVars

----
\* The status queries.

\* The dict of health() without the defaults of lines 57-59.
HealthAnswerNoDefaults ==
    [NoAnswer EXCEPT !.kind = "health", !.status = "ok",
                     !.info = [GetIndexInfo EXCEPT !.message = "",
                                                   !.last_build_time = NoneTs]]

\* The dict of health() (app.py:54-61): status, and index_status from
\* get_index_info's dict with the defaults of lines 57-59.
HealthAnswer ==
    [NoAnswer EXCEPT !.kind = "health", !.status = "ok",
                     !.info = [GetIndexInfo EXCEPT
                                 !.item_count = IF GetIndexInfo.exists
                                                THEN GetIndexInfo.item_count ELSE 0,
                                 !.message = "", !.last_build_time = NoneTs]]

\* The dict of get_index_status() and of validate_index(): get_index_info's.
InfoAnswer(kind) == [NoAnswer EXCEPT !.kind = kind, !.info = GetIndexInfo]

\* GET /health.
Health ==
    /\ answer' = HealthAnswer
    /\ UNCHANGED <<envVars, storeVars, deploy, retriever, ctor, proc, nextBid, hist>>
    /\ UNCHANGED searchVars

\* GET /api/index/status.
GetIndexStatus ==
    /\ answer' = InfoAnswer("status")
    /\ UNCHANGED <<envVars, storeVars, deploy, retriever, ctor, proc, nextBid, hist>>
    /\ UNCHANGED searchVars

\* QueryRetriever.validate_index.
ValidateIndex ==
    /\ answer' = InfoAnswer("validate")
    /\ UNCHANGED <<envVars, storeVars, deploy, retriever, ctor, proc, nextBid, hist>>
    /\ UNCHANGED searchVars

----
\* The server: start-up, /api/index/refresh, build_index.py from a shell, and
\* the data files written or removed meanwhile.
Next ==
    \/ \E f \in DATA_FILES : WriteFile(f)
    \/ \E f \in DATA_FILES : DeleteFile(f)
    \/ \E x \in {"index", "meta"} : RemoveStoreFile(x)
    \/ \E p \in Procs : BuildLoadMissing(p)
    \/ \E p \in Procs : BuildEncodeRaises(p)
    \/ \E p \in Procs : BuildLoad(p)
    \/ \E p \in Procs : BuildWriteIndex(p)
    \/ \E p \in Procs : BuildWriteMeta(p)
    \/ \E p \in Procs : BuildSave(p)
    \/ \E w \in Workers : StartCli(w)
    \/ InitCheck
    \/ InitReadIndex
    \/ InitReadMeta
    \/ InitModelRaises
    \/ InitDone
    \/ \E w \in Workers : StartRefresh(w)
    \/ \E w \in Workers : RefreshNoRetriever(w)
    \/ \E w \in Workers : ReloadReadIndex(w)
    \/ \E w \in Workers : ReloadReadMeta(w)
    \/ \E w \in Workers : ReloadDone(w)

Spec == Init /\ [][Next]_vars

----
\* The staleness tracking: build_index.py run from shells while the data
\* files are written, replaced and removed, and the status queries.

Shells == {"w1"}

InitStale ==
    /\ InitCommon
    /\ budget = MaxChanges
    /\ deploy = [samePaths |-> TRUE, fIndex |-> NoFile, fMeta |-> NoFile]
    /\ ctor = NoCtor
    /\ proc = [p \in Procs |-> IdleProc]

NextStale ==
    \/ \E f \in DATA_FILES : WriteFile(f)
    \/ \E f \in DATA_FILES : CopyFile(f)
    \/ \E f \in DATA_FILES : DeleteFile(f)
    \/ \E p \in Shells : StartCli(p)
    \/ \E p \in Shells : BuildLoadMissing(p)
    \/ \E p \in Shells : BuildEncodeRaises(p)
    \/ \E p \in Shells : BuildLoad(p)
    \/ \E p \in Shells : BuildWriteIndex(p)
    \/ \E p \in Shells : BuildWriteMeta(p)
    \/ \E p \in Shells : BuildSave(p)
    \/ Health
    \/ GetIndexStatus
    \/ ValidateIndex

SpecStale == InitStale /\ [][NextStale]_vars

----
\* The claims about the staleness tracking (checked under SpecStale).

\* A build has completed: its metadata is what TIMESTAMP_PATH holds.
Built == hist.saves > 0

\* Some existing data file carries an mtime later than the one the last
\* completed build recorded for it, or none was recorded for it.
ChangedSinceRecorded ==
    \E f \in DATA_FILES :
        /\ files[f].exists
        /\ \/ hist.recorded[f] = NoneTs
           \/ files[f].mtime > hist.recorded[f]

\* C1, as claimed: once an index is built, it is reported stale exactly when
\* some existing data file has a modification time later than the last
\* index-build timestamp.
C1_StaleIffAfterBuildTime ==
    Built =>
        (IsIndexStale <=>
            \E f \in DATA_FILES :
                files[f].exists /\ files[f].mtime > tsFile.last_build_time)

\* C1, amended: the index is reported stale exactly when the index file, the
\* metadata file or the build metadata is missing, or some existing data file
\* has no mtime recorded by the last build or an mtime strictly later than the
\* one that build recorded for it (not: later than the build time).
C1_StaleIffLaterThanRecorded ==
    IsIndexStale <=>
        \/ indexFile = NoFile
        \/ metaFile = NoFile
        \/ ~Built
        \/ ChangedSinceRecorded

\* C1's case: after a build, a file put in place with an mtime later than the
\* recorded one and not later than the build time is reported stale.
C1_Witness ==
    /\ Built
    /\ IsIndexStale
    /\ \E f \in DATA_FILES :
          /\ files[f].exists
          /\ hist.recorded[f] # NoneTs
          /\ files[f].mtime > hist.recorded[f]
          /\ files[f].mtime <= tsFile.last_build_time

\* C2: after build_index() has returned, and as long as no data file is written
\* or replaced afterwards, is_index_stale() is False and get_index_info()
\* reports exists, not stale, "Index is current" and the item count of that build.
C2_CurrentAfterBuild ==
    (Built /\ ~hist.modifiedSince) =>
        /\ ~IsIndexStale
        /\ GetIndexInfo.exists
        /\ ~GetIndexInfo.is_stale
        /\ GetIndexInfo.message = "Index is current"
        /\ GetIndexInfo.item_count = hist.n

\* C2's case: a build of three items that followed a change of the data files
\* has returned, and nothing was written since.
C2_Witness ==
    /\ Built
    /\ ~hist.modifiedSince
    /\ clock > 2
    /\ hist.n = 3
    /\ GetIndexInfo.item_count = 3

DataItems ==
    (IF files["incidents.csv"].exists THEN files["incidents.csv"].rows ELSE 0)
    + (IF files["kb_articles.csv"].exists THEN files["kb_articles.csv"].rows ELSE 0)

\* C19: whenever is_index_stale() returns False, the index on disk holds
\* exactly what the existing data files hold at that moment, also when a data
\* file was written between the build's load and its save_index_metadata.
C19_CurrentIndexHoldsData ==
    ~IsIndexStale => indexFile.n = DataItems

\* C13: GET /health reports status "ok" with exists, is_stale and item_count
\* of get_index_info(); with no build metadata these are False, True and 0;
\* is_stale=False implies exists=True.
C13_HealthReportsIndexInfo ==
    answer.kind = "health" =>
        /\ answer.status = "ok"
        /\ answer.info.exists = GetIndexInfo.exists
        /\ answer.info.is_stale = GetIndexInfo.is_stale
        /\ tsFile = NoMeta =>
              /\ ~answer.info.exists
              /\ answer.info.is_stale
              /\ answer.info.item_count = 0
        /\ tsFile # NoMeta => answer.info.item_count = tsFile.item_count
        /\ ~answer.info.is_stale => answer.info.exists

\* C13's case: /health is asked while the first build has written the index
\* and its metadata and not yet the build metadata.
C13_Witness ==
    /\ answer.kind = "health"
    /\ indexFile # NoFile
    /\ metaFile # NoFile
    /\ tsFile = NoMeta
    /\ answer.info.item_count = 0
    /\ answer.info.is_stale

----
\* The claims about the server (checked under Spec).

\* C4: after refresh_index answers success=True, the retriever's in-memory
\* index and metadata are the ones the build_index() call of that request wrote.
C4_RefreshLoadsOwnBuild ==
    (answer.kind = "refresh" /\ answer.success) =>
        /\ retriever.index.bid = answer.bid
        /\ retriever.metadata.bid = answer.bid

\* C5: refresh_index never raises; success=True only when build_index()
\* returned and reload_index() reported success; when build_index() raised the
\* answer is "Error refreshing index" and reload_index() was not attempted;
\* when reload_index() reported failure it is "Index rebuilt but failed to reload".
C5_RefreshAnswers ==
    /\ answer.kind # "exception"
    /\ answer.kind = "refresh" =>
        /\ answer.success => (answer.built = "returned" /\ answer.reload = "ok")
        /\ answer.built = "raised" =>
              /\ ~answer.success
              /\ answer.message = "Error refreshing index"
              /\ answer.reload = "no"
              /\ answer.reads = 0
        /\ (answer.built = "returned" /\ answer.reload = "failed") =>
              /\ ~answer.success
              /\ answer.message = "Index rebuilt but failed to reload"

\* C5's case: the build of a refresh returned and its reload failed.
C5_Witness ==
    /\ answer.kind = "refresh"
    /\ answer.built = "returned"
    /\ answer.reload = "failed"
    /\ ~answer.success

\* C6: the constructor calls build_index() exactly when auto_rebuild is set and
\* is_index_stale() is True at the check, the call has ended before the index
\* is loaded, and with auto_rebuild=False it calls no build_index().
C6_RebuildIffStale ==
    ctor.staleAtCheck # "unknown" =>
        /\ ctor.buildCalled <=> (ctor.auto /\ ctor.staleAtCheck = "yes")
        /\ ctor.buildCalled <=> proc["main"].bid # 0
        /\ (ctor.loadBegun /\ ctor.buildCalled)
              => proc["main"].built \in {"returned", "raised"}
        /\ ~ctor.auto => (proc["main"].bid = 0 /\ proc["main"].built = "no")

\* C6's case: auto_rebuild=True found the index current and loaded it without
\* a build.
C6_Witness ==
    /\ ctor.auto
    /\ ctor.staleAtCheck = "no"
    /\ ~ctor.buildCalled
    /\ proc["main"].pc = "done"

\* C7, as claimed: construction fails only if loading the index file or the
\* metadata file fails.
C7_FailsOnlyOnIndexOrMeta ==
    proc["main"].pc = "failed" => ctor.failedAt \in {"index", "meta"}

\* C7, amended: an exception of the automatic rebuild is swallowed and
\* construction goes on to load the index on disk; construction fails only if
\* loading the index file, the metadata file or the embedding model fails.
C7_RebuildFailureSwallowed ==
    /\ proc["main"].pc = "failed" => ctor.failedAt \in {"index", "meta", "model"}
    /\ (proc["main"].built = "raised" /\ proc["main"].pc = "done") =>
          /\ retriever.defined
          /\ retriever.index # NoFile
          /\ retriever.metadata # NoFile
          /\ retriever.index.bid # proc["main"].bid

\* C7's case: the automatic rebuild raised and the retriever was constructed
\* from the index on disk.
C7_Witness ==
    /\ proc["main"].built = "raised"
    /\ proc["main"].pc = "done"
    /\ retriever.defined

\* C8: reload_index() never raises; it returns success with the current index
\* info when both files were read (both now in memory), and failure when a
\* read failed.
C8_ReloadAnswers ==
    (answer.kind = "refresh" /\ answer.reload # "no") =>
        /\ answer.reload \in {"ok", "failed"}
        /\ answer.reload = "ok" <=> answer.reads = 2
        /\ answer.reload = "ok" =>
              /\ answer.info = GetIndexInfo
              /\ retriever.index # NoFile
              /\ retriever.metadata # NoFile
        /\ answer.reload = "failed" =>
              /\ answer.info = NoInfo
              /\ answer.message = "Index rebuilt but failed to reload"

\* C8's case: reload_index read the index and failed on the metadata.
C8_Witness ==
    /\ answer.kind = "refresh"
    /\ answer.reload = "failed"
    /\ answer.reads = 1

\* C20: in every state in which a search can run, also while a refresh
\* (build, then reload) runs, the index and the metadata the retriever holds
\* in memory come from the same build, so that a position of the index is a
\* position of the metadata list and denotes the item embedded there.
C20_IndexAndMetadataSameBuild ==
    retriever.defined =>
        /\ retriever.index.bid = retriever.metadata.bid
        /\ retriever.index.n = retriever.metadata.n

----
\* The search: /api/search and get_mapped_kb_articles. A string is the
\* sequence of its characters.

\* str.lower, on a character and on a string.
LowerChar(c) ==
    IF c = "A" THEN "a" ELSE IF c = "B" THEN "b" ELSE IF c = "H" THEN "h"
    ELSE IF c = "L" THEN "l" ELSE IF c = "P" THEN "p" ELSE c

Lower(str) == [i \in 1..Len(str) |-> LowerChar(str[i])]

\* Python's  x in y  on strings.
IsSubstring(x, y) ==
    \E i \in 0..(Len(y) - Len(x)) : \A j \in 1..Len(x) : y[i + j] = x[j]

\* The ids transform_verizon_data.py gives to the rows, by position.
IncidentId(i) == <<"INC1", "INC2", "INC3", "INC4", "INC5">>[i]

KbId(i) == <<"KB1", "KB2", "KB3", "KB4", "KB5">>[i]

Applications == {"Login", "Payments"}

\* "Ab" and "bb".
RootCauses == {<<"A", "b">>, <<"b", "b">>}

\* "aBb", which holds both root causes but for the case, and "Ba", which
\* holds neither.
Titles == {<<"a", "B", "b">>, <<"B", "a">>}

\* The tables read_csv may find in incidents.csv and in kb_articles.csv.
IncidentTables ==
    UNION {[1..n -> Applications \X RootCauses] : n \in 0..MaxRows}

KbTables ==
    UNION {[1..n -> Applications \X Titles] : n \in 0..MaxRows}

IncidentRows(t) ==
    [i \in 1..Len(t) |-> [incident_id |-> IncidentId(i), application |-> t[i][1],
                          root_cause |-> t[i][2]]]

KbRows(t) ==
    [i \in 1..Len(t) |-> [kb_id |-> KbId(i), application |-> t[i][1], title |-> t[i][2]]]

\* The ids a caller may pass: those of the rows, and one of no row.
IncidentIds == {IncidentId(i) : i \in 1..(MaxRows + 1)}

\* A score, in thousandths.
MappedScore == 1000

\* score = 1 / (1 + distance) of search(): the distance in tenths, the score
\* in thousandths.
SimilarityScore(distance) == 10000 \div (10 + distance)

\* A dict of the list search() returns. A key a dict lacks is <<>>, a key it
\* holds is <<value>>.
SearchItem(id, type, distance) ==
    [id |-> id, type |-> type, title |-> <<>>, application |-> <<>>,
     score |-> SimilarityScore(distance), distance |-> <<distance>>]

\* Lists search() may return: the items of the index in the order of their
\* distance, KB articles among the incidents.
SearchResults ==
    { <<>>,
      <<SearchItem("INC1", "incident", 0)>>,
      <<SearchItem("KB1", "kb", 0), SearchItem("INC2", "incident", 1)>>,
      <<SearchItem("INC2", "incident", 0), SearchItem("KB2", "kb", 1),
        SearchItem("INC1", "incident", 2)>>,
      <<SearchItem("KB2", "kb", 1), SearchItem("KB1", "kb", 2)>>,
      <<SearchItem("INC3", "incident", 1), SearchItem("X1", "unknown", 1),
        SearchItem("INC1", "incident", 2)>> }

\* The dict get_mapped_kb_articles appends for a row of kb_articles.csv.
MappedKb(kb) ==
    [id |-> kb.kb_id, type |-> "kb", title |-> kb.title,
     application |-> <<kb.application>>, score |-> MappedScore, distance |-> <<>>]

\* The test of line 132 compared with the case kept.
PairMatchesCaseKept(kb, pair) ==
    kb.application = pair[1] /\ IsSubstring(pair[2], kb.title)

\* The test of line 132.
PairMatches(kb, pair) ==
    kb.application = pair[1] /\ IsSubstring(Lower(pair[2]), Lower(kb.title))

\* The inner loop over app_root_pairs: what it appends for one KB row. It
\* appends at the first pair that matches, and breaks.
RECURSIVE MatchKb(_, _)
MatchKb(kb, pairs) ==
    IF pairs = {} THEN <<>>
    ELSE LET pair == CHOOSE x \in pairs : TRUE
         IN IF PairMatches(kb, pair) THEN <<MappedKb(kb)>>
            ELSE MatchKb(kb, pairs \ {pair})

\* The outer loop over the rows of kb_df.
RECURSIVE MatchedKbs(_, _)
MatchedKbs(kb_df, pairs) ==
    IF kb_df = <<>> THEN <<>>
    ELSE MatchKb(Head(kb_df), pairs) \o MatchedKbs(Tail(kb_df), pairs)

AppRootPairs(filtered_incidents) ==
    {<<filtered_incidents[i].application, filtered_incidents[i].root_cause>> :
        i \in 1..Len(filtered_incidents)}

\* QueryRetriever.get_mapped_kb_articles.
GetMappedKbArticlesOf(incidents_df, kb_df, incident_ids) ==
    LET isin(inc) == inc.incident_id \in incident_ids
        filtered_incidents == SelectSeq(incidents_df, isin)
    IN IF filtered_incidents = <<>> THEN <<>>
       ELSE MatchedKbs(kb_df, AppRootPairs(filtered_incidents))

IsIncident(r) == r.type = "incident"

IdsOf(items) == {items[i].id : i \in 1..Len(items)}

\* The list of line 67 with every search result kept.
IncidentsOfUnfiltered(all_results) == all_results

\* incidents of search_incidents (line 67).
IncidentsOf(all_results) == SelectSeq(all_results, IsIncident)

\* "results" of search_incidents.
SearchResponse(incidents_df, kb_df, all_results) ==
    LET incidents == IncidentsOf(all_results)
        incident_ids == IdsOf(incidents)
        mapped_kbs == GetMappedKbArticlesOf(incidents_df, kb_df, incident_ids)
    IN incidents \o mapped_kbs

\* get_mapped_kb_articles is called with a list of ids.
GetMappedKbArticles(ids) ==
    /\ sOut.op = "none"
    /\ sIds' = ids
    /\ sOut' = [op |-> "mapped",
                res |-> GetMappedKbArticlesOf(sIncidents, sKbs, ids)]
    /\ UNCHANGED <<sIncidents, sKbs, sHits, call, predictor>>
    /\ UNCHANGED lifeVars

\* POST /api/search; search() returned all_results.
SearchIncidents(all_results) ==
    /\ sOut.op = "none"
    /\ sHits' = all_results
    /\ sIds' = IdsOf(IncidentsOf(all_results))
    /\ sOut' = [op |-> "search", res |-> SearchResponse(sIncidents, sKbs, all_results)]
    /\ UNCHANGED <<sIncidents, sKbs, call, predictor>>
    /\ UNCHANGED lifeVars

InitSearch ==
    /\ InitStore
    /\ \E ti \in IncidentTables, tk \in KbTables :
         /\ sIncidents = IncidentRows(ti)
         /\ sKbs = KbRows(tk)
         /\ files = [f \in DATA_FILES |->
                       IF f = "patterns.csv" THEN AbsentFile
                       ELSE [exists |-> TRUE, mtime |-> 0,
                             rows |-> IF f = "incidents.csv" THEN Len(ti) ELSE Len(tk)]]
    /\ sHits = <<>>
    /\ sIds = {}
    /\ sOut = [op |-> "none", res |-> <<>>]
    /\ call = NoCall
    /\ predictor = NoPredictor
    /\ budget = 0
    /\ deploy = [samePaths |-> TRUE, fIndex |-> NoFile, fMeta |-> NoFile]
    /\ ctor = NoCtor
    /\ proc = [p \in Procs |-> IdleProc]

NextSearch ==
    \/ \E ids \in SUBSET IncidentIds : GetMappedKbArticles(ids)
    \/ \E all_results \in SearchResults : SearchIncidents(all_results)

SpecSearch == InitSearch /\ [][NextSearch]_vars

----
\* The claims about the search (checked under SpecSearch).

\* Row k of kb_articles.csv is mapped to an incident with an id in sIds.
KbIsMapped(k) ==
    \E i \in 1..Len(sIncidents) :
        /\ sIncidents[i].incident_id \in sIds
        /\ sIncidents[i].application = sKbs[k].application
        /\ IsSubstring(Lower(sIncidents[i].root_cause), Lower(sKbs[k].title))

\* C9: the response of /api/search lists the incidents the search returned,
\* in search order, then the KB articles mapped to them; every item of type
\* 'kb' is one get_mapped_kb_articles returned, with score 1.0, so no KB
\* article is there because the search returned it; no incident follows a KB
\* article.
C9_IncidentsThenMappedKbs ==
    sOut.op = "search" =>
        LET res == sOut.res
            n == Cardinality({i \in 1..Len(sHits) : sHits[i].type = "incident"})
            mapped == {k \in 1..Len(sKbs) : KbIsMapped(k)}
        IN /\ Len(res) = n + Cardinality(mapped)
           /\ SubSeq(res, 1, n) = SelectSeq(sHits, IsIncident)
           /\ \A j \in (n + 1)..Len(res) :
                 /\ res[j].type = "kb"
                 /\ res[j].score = MappedScore
                 /\ res[j].distance = <<>>
                 /\ \E k \in mapped : res[j] = MappedKb(sKbs[k])
           /\ \A k \in mapped : \E j \in (n + 1)..Len(res) : res[j] = MappedKb(sKbs[k])
           /\ \A i \in 1..Len(sHits) :
                 sHits[i].type = "kb" => \A j \in 1..Len(res) : res[j] # sHits[i]

\* C9's case: the search returned a KB article between two incidents; the
\* response holds the two incidents and a mapped KB article, and the KB
\* article of the search is not mapped.
C9_Witness ==
    /\ sOut.op = "search"
    /\ Len(sHits) = 3
    /\ sHits[2].type = "kb"
    /\ Len(sOut.res) = 3
    /\ sOut.res[3].type = "kb"
    /\ sOut.res[3].id # sHits[2].id

\* C10: get_mapped_kb_articles returns a KB article exactly when an incident
\* with an id in incident_ids has the KB's application and a root_cause that
\* is, case ignored, a substring of the KB's title; each KB article at most
\* once, in the order of the KB file, with score 1.0; the empty list when no
\* incident has one of the ids.
C10_MappedKbArticles ==
    sOut.op = "mapped" =>
        LET res == sOut.res
            mapped == {k \in 1..Len(sKbs) : KbIsMapped(k)}
        IN /\ Len(res) = Cardinality(mapped)
           /\ \E row \in [1..Len(res) -> mapped] :
                 /\ \A j \in 1..Len(res) :
                       /\ res[j] = MappedKb(sKbs[row[j]])
                       /\ res[j].score = MappedScore
                 /\ \A j1, j2 \in 1..Len(res) : j1 < j2 => row[j1] < row[j2]
           /\ (\A i \in 1..Len(sIncidents) : sIncidents[i].incident_id \notin sIds)
                 => res = <<>>

\* C10's case: an incident whose root_cause is in another case than in the
\* title maps the second KB article and not the first; one of the ids is of
\* no incident.
C10_Witness ==
    /\ sOut.op = "mapped"
    /\ Len(sKbs) = 2
    /\ Len(sOut.res) = 1
    /\ sOut.res[1].id = "KB2"
    /\ \E i \in 1..Len(sIncidents) :
          /\ sIncidents[i].incident_id \in sIds
          /\ sIncidents[i].application = sKbs[2].application
          /\ ~IsSubstring(sIncidents[i].root_cause, sKbs[2].title)
    /\ \E id \in sIds : \A i \in 1..Len(sIncidents) : sIncidents[i].incident_id # id

----
\* The ranking: QueryRetriever.search over a flat inner-product index. An
\* inner product and a threshold are in tenths, a score in thousandths. A
\* value of a metadata dict is [t |-> its type, s |-> its printed form]; a key
\* a dict lacks is <<>>, a key it holds is <<value>>.

\* Items build_index.py and the query may have in common.
MaxItems == 2
\* The k of a search.
MaxK == 3

\* Inner products of a query with normalised embeddings: -0.5, 0 and 1.
InnerProducts == {-5, 0, 10}

\* The default threshold, 12.0, and a tight one, 0.3.
Thresholds == {120, 3}

PyStrOf(text) == [t |-> "str", s |-> text]

\* str(value).
PyStr(value) == value.s

\* The items build_index puts in the metadata (lines 112-119 and 124-129), an
\* item with a numeric id, and an item without keys.
MetadataItems ==
    { [type |-> <<PyStrOf("incident")>>, id |-> <<PyStrOf("INC1")>>,
       text |-> <<PyStrOf("cannot login")>>, resolution |-> <<PyStrOf("restart")>>,
       content |-> <<>>, title |-> <<>>],
      [type |-> <<PyStrOf("kb")>>, id |-> <<PyStrOf("KB1")>>,
       text |-> <<>>, resolution |-> <<>>,
       content |-> <<PyStrOf("Step 1")>>, title |-> <<PyStrOf("How to resolve")>>],
      [type |-> <<PyStrOf("incident")>>, id |-> <<[t |-> "int", s |-> "7"]>>,
       text |-> <<PyStrOf("timeout")>>, resolution |-> <<>>,
       content |-> <<>>, title |-> <<>>],
      [type |-> <<>>, id |-> <<>>, text |-> <<>>, resolution |-> <<>>,
       content |-> <<>>, title |-> <<>>] }

\* dict.get(key, default).
DictGet(item, key, default) == IF item[key] = <<>> THEN default ELSE item[key][1]

\* What index.search gives for a position it has no item for.
PadHit == [idx |-> -1, distance |-> -340]

\* The position of the largest inner product among the positions left, the
\* first of them on a tie.
BestOf(ips, left) ==
    CHOOSE i \in left :
        \A j \in left : ips[i] > ips[j] \/ (ips[i] = ips[j] /\ i <= j)

\* IndexFlatIP.search: the k positions of the largest inner products, the
\* largest first, padded to k.
RECURSIVE IndexSearchFrom(_, _, _)
IndexSearchFrom(ips, left, k) ==
    IF k = 0 THEN <<>>
    ELSE IF left = {} THEN <<PadHit>> \o IndexSearchFrom(ips, left, k - 1)
    ELSE LET i == BestOf(ips, left)
         IN <<[idx |-> i - 1, distance |-> ips[i]]>>
                \o IndexSearchFrom(ips, left \ {i}, k - 1)

IndexSearch(ips, k) == IndexSearchFrom(ips, 1..Len(ips), k)

\* The dict search() appends (lines 85-94).
SearchResult(item, distance) ==
    [id |-> PyStr(DictGet(item, "id", PyStrOf("N/A"))),
     type |-> DictGet(item, "type", PyStrOf("unknown")),
     text |-> DictGet(item, "text", PyStrOf("")),
     resolution |-> DictGet(item, "resolution", PyStrOf("")),
     content |-> DictGet(item, "content", PyStrOf("")),
     title |-> DictGet(item, "title", PyStrOf("")),
     score |-> SimilarityScore(distance),
     distance |-> distance]

\* The test of line 75 with the threshold ignored.
OverThresholdNever(distance, threshold) == FALSE

\* The test of line 75.
OverThreshold(distance, threshold) == distance > threshold

\* The loop of search() over the hits (lines 69-94).
RECURSIVE SearchLoop(_, _, _)
SearchLoop(hits, metadata, threshold) ==
    IF hits = <<>> THEN <<>>
    ELSE LET hit == Head(hits)
             rest == SearchLoop(Tail(hits), metadata, threshold)
         IN IF hit.idx = -1 THEN rest
            ELSE IF OverThreshold(hit.distance, threshold) THEN rest
            ELSE <<SearchResult(metadata[hit.idx + 1], hit.distance)>> \o rest

\* QueryRetriever.search(query, k, threshold); ips are the inner products of
\* the query with the items of the index.
Search(ips, metadata, k, threshold) ==
    /\ call.op = "none"
    /\ call' = [op |-> "search", ips |-> ips, metadata |-> metadata, k |-> k,
                threshold |-> threshold, hits |-> IndexSearch(ips, k),
                res |-> SearchLoop(IndexSearch(ips, k), metadata, threshold)]
    /\ UNCHANGED <<sIncidents, sKbs, sHits, sIds, sOut, predictor>>
    /\ UNCHANGED lifeVars

\* A process that serves nothing: the state of the variables of the server
\* while a function is looked at.
InitIdle ==
    /\ InitCommon
    /\ budget = 0
    /\ deploy = [samePaths |-> TRUE, fIndex |-> NoFile, fMeta |-> NoFile]
    /\ ctor = NoCtor
    /\ proc = [p \in Procs |-> IdleProc]

NextRank ==
    \E n \in 0..MaxItems, k \in 1..MaxK, threshold \in Thresholds :
        \E ips \in [1..n -> InnerProducts], metadata \in [1..n -> MetadataItems] :
            Search(ips, metadata, k, threshold)

SpecRank == InitIdle /\ [][NextRank]_vars

----
\* The claims about the ranking (checked under SpecRank).

\* The hits of the call that search() must return: a position, under the
\* threshold.
Kept(h) == call.hits[h].idx # -1 /\ call.hits[h].distance <= call.threshold

\* C11: search(query, k, threshold) returns at most k results, in the order
\* of the index; none for position -1 nor for a distance over the threshold;
\* for every other hit, score 1/(1+distance) and the id (as a string), type,
\* text, resolution, content and title of the metadata item at that position,
\* a missing one defaulted.
C11_SearchResults ==
    call.op = "search" =>
        LET res == call.res
            kept == {h \in 1..Len(call.hits) : Kept(h)}
        IN /\ Len(call.hits) = call.k
           /\ Len(res) <= call.k
           /\ Len(res) = Cardinality(kept)
           /\ \E at \in [1..Len(res) -> kept] :
                 /\ \A j1, j2 \in 1..Len(res) : j1 < j2 => at[j1] < at[j2]
                 /\ \A j \in 1..Len(res) :
                       LET hit == call.hits[at[j]]
                           item == call.metadata[hit.idx + 1]
                       IN /\ res[j].score * (10 + hit.distance) <= 10000
                          /\ (res[j].score + 1) * (10 + hit.distance) > 10000
                          /\ res[j].distance = hit.distance
                          /\ res[j].id = (IF item.id = <<>> THEN "N/A" ELSE item.id[1].s)
                          /\ res[j].type = (IF item.type = <<>> THEN PyStrOf("unknown")
                                            ELSE item.type[1])
                          /\ \A key \in {"text", "resolution", "content", "title"} :
                                res[j][key] = (IF item[key] = <<>> THEN PyStrOf("")
                                               ELSE item[key][1])

\* C11's case: of three hits the search kept the second only: the first is
\* over the threshold, the third is a position the index has no item for;
\* the item kept lacks a title.
C11_Witness ==
    /\ call.op = "search"
    /\ call.k = 3
    /\ call.hits[1].idx # -1 /\ call.hits[1].distance > call.threshold
    /\ call.hits[3].idx = -1
    /\ Len(call.res) = 1
    /\ call.res[1].distance = call.hits[2].distance
    /\ call.metadata[call.hits[2].idx + 1].title = <<>>
    /\ call.res[1].title = PyStrOf("")

\* C12: the results of a search are ranked best-first and their score is a
\* similarity between 0 and 1, higher for more similar: the scores do not
\* increase along the list, and of two results the one with the larger inner
\* product has no lower score.
C12_ScoresRankBestFirst ==
    call.op = "search" =>
        LET res == call.res
        IN /\ \A j \in 1..Len(res) : res[j].score >= 0 /\ res[j].score <= 1000
           /\ \A j1, j2 \in 1..Len(res) : j1 < j2 => res[j1].score >= res[j2].score
           /\ \A j1, j2 \in 1..Len(res) :
                 res[j1].distance > res[j2].distance => res[j1].score >= res[j2].score

----
\* The solution generator: SolutionGenerator and /api/generate-solution. A
\* text is the sequence of its characters.

\* Lines of an answer of the LLM.
MaxLines == 6

\* steps[:5] and unique_steps[:5].
MaxSteps == 5

IsSpace(c) == c \in {" ", "\n"}

Digits == {"1", "2", "3"}

RECURSIVE LStrip(_)
LStrip(str) ==
    IF str # <<>> /\ IsSpace(Head(str)) THEN LStrip(Tail(str)) ELSE str

RECURSIVE RStrip(_)
RStrip(str) ==
    IF str # <<>> /\ IsSpace(str[Len(str)]) THEN RStrip(SubSeq(str, 1, Len(str) - 1))
    ELSE str

\* str.strip.
Strip(str) == RStrip(LStrip(str))

\* The position of the first c in str, 0 when there is none.
Find(str, c) ==
    IF \E i \in 1..Len(str) : str[i] = c
    THEN CHOOSE i \in 1..Len(str) : str[i] = c /\ \A j \in 1..(i - 1) : str[j] # c
    ELSE 0

\* str.split(c).
RECURSIVE Split(_, _)
Split(str, c) ==
    IF Find(str, c) = 0 THEN <<str>>
    ELSE <<SubSeq(str, 1, Find(str, c) - 1)>>
            \o Split(SubSeq(str, Find(str, c) + 1, Len(str)), c)

\* str.split(c, 1)[1].
AfterFirst(str, c) == SubSeq(str, Find(str, c) + 1, Len(str))

\* str.startswith.
StartsWith(str, prefix) ==
    Len(str) >= Len(prefix) /\ SubSeq(str, 1, Len(prefix)) = prefix

\* list[:n] keeping the whole list.
TakeAll(list, n) == list

\* list[:n].
Take(list, n) == SubSeq(list, 1, IF Len(list) < n THEN Len(list) ELSE n)

\* What the loop of _parse_steps appends for a line (lines 128-138).
StepOfLine(rawLine) ==
    LET line == Strip(rawLine)
        hasColon == Find(line, ":") # 0
    IN IF StartsWith(line, <<"S", "t", "e", "p", " ">>)
          \/ (line # <<>> /\ line[1] \in Digits /\ hasColon)
       THEN LET step_text == IF hasColon THEN Strip(AfterFirst(line, ":")) ELSE line
            IN IF step_text # <<>> THEN <<step_text>> ELSE <<>>
       ELSE <<>>

RECURSIVE StepsOfLines(_)
StepsOfLines(lines) ==
    IF lines = <<>> THEN <<>>
    ELSE StepOfLine(Head(lines)) \o StepsOfLines(Tail(lines))

IsNotBlank(str) == Strip(str) # <<>>

\* The stripped sentences of line 142.
Sentences(solution_text) ==
    LET kept == SelectSeq(Split(solution_text, "."), IsNotBlank)
    IN [i \in 1..Len(kept) |-> Strip(kept[i])]

\* SolutionGenerator._parse_steps.
ParseSteps(solution_text) ==
    LET found == StepsOfLines(Split(Strip(solution_text), "\n"))
        steps == IF found = <<>> THEN Take(Sentences(solution_text), MaxSteps)
                 ELSE found
    IN Take(steps, MaxSteps)

\* The lines an answer is made of: "Step 1: a", "2:" and "b. c".
AnswerLines ==
    { <<"S", "t", "e", "p", " ", "1", ":", " ", "a">>,
      <<"2", ":">>,
      <<"b", ".", " ", "c">> }

\* "\n".join(lines).
RECURSIVE JoinLines(_)
JoinLines(lines) ==
    IF lines = <<>> THEN <<>>
    ELSE IF Len(lines) = 1 THEN lines[1]
    ELSE lines[1] \o <<"\n">> \o JoinLines(Tail(lines))

AnswerTexts == {JoinLines(lines) : lines \in UNION {[1..n -> AnswerLines] : n \in 0..MaxLines}}

\* A dict of payload.results: type, resolution and content, each held or not.
ResultDict(type, resolution, content) ==
    [type |-> type, resolution |-> resolution, content |-> content]

\* A resolution that is a list: a value json allows and a dict cannot hold as
\* a key.
ListValue == [t |-> "list", s |-> "['restart']"]

\* The results a request may carry: none; an incident and a KB article; seven
\* items of which six give distinct steps; an incident whose resolution is a
\* list.
Requests ==
    { <<>>,
      <<ResultDict(<<"incident">>, <<PyStrOf("r1")>>, <<>>),
        ResultDict(<<"kb">>, <<>>, <<PyStrOf("c1")>>)>>,
      <<ResultDict(<<"incident">>, <<PyStrOf("r1")>>, <<>>),
        ResultDict(<<"incident">>, <<PyStrOf("r2")>>, <<>>),
        ResultDict(<<"kb">>, <<>>, <<PyStrOf("c1")>>),
        ResultDict(<<"incident">>, <<PyStrOf("r3")>>, <<>>),
        ResultDict(<<"incident">>, <<PyStrOf("r1")>>, <<>>),
        ResultDict(<<"kb">>, <<>>, <<PyStrOf("c2")>>),
        ResultDict(<<"incident">>, <<PyStrOf("r4")>>, <<>>),
        ResultDict(<<>>, <<PyStrOf("r5")>>, <<>>),
        ResultDict(<<"incident">>, <<PyStrOf("")>>, <<>>)>>,
      <<ResultDict(<<"incident">>, <<ListValue>>, <<>>)>> }

OfType(search_results, type) ==
    LET is(r) == r.type = <<type>>
    IN SelectSeq(search_results, is)

\* [d.get(key, '') for d in dicts if d.get(key)].
Truthy(dicts, key) ==
    LET has(d) == d[key] # <<>> /\ d[key][1] # PyStrOf("")
        kept == SelectSeq(dicts, has)
    IN [i \in 1..Len(kept) |-> kept[i][key][1]]

\* list(dict.fromkeys(all_steps)).
RECURSIVE Unique(_)
Unique(all_steps) ==
    IF all_steps = <<>> THEN <<>>
    ELSE LET front == Unique(SubSeq(all_steps, 1, Len(all_steps) - 1))
             last == all_steps[Len(all_steps)]
         IN IF \E i \in 1..Len(front) : front[i] = last THEN front
            ELSE Append(front, last)

Raised(what) == [raised |-> TRUE, error |-> what]

Solution(steps, source, search_results, model) ==
    [raised |-> FALSE, steps |-> steps, source |-> source,
     incident_count |-> Len(OfType(search_results, "incident")),
     kb_count |-> Len(OfType(search_results, "kb")),
     model |-> model]

\* SolutionGenerator._fallback_solution; dict.fromkeys raises TypeError on a
\* value that is not hashable.
FallbackSolution(search_results) ==
    LET resolutions == Truthy(OfType(search_results, "incident"), "resolution")
        kb_content == Truthy(OfType(search_results, "kb"), "content")
        all_steps == resolutions \o kb_content
    IN IF \E i \in 1..Len(all_steps) : all_steps[i].t # "str"
       THEN Raised("TypeError")
       ELSE Solution(Take(Unique(all_steps), MaxSteps), "aggregated", search_results,
                     "fallback")

\* SolutionGenerator.__init__: whether self.model is set.
GeneratorModel(api_key, genai_ok) == api_key /\ genai_ok

\* The outcomes of the LLM: generate_content raises, response.text
\* raises, or text is the answer.
LlmOutcomes == {"call_raises", "text_raises", "answers"}

\* The except branch of generate_solution re-raising.
GenerateExceptRaises(search_results) == Raised("Exception")

\* The except branch of generate_solution (lines 70-73).
GenerateExcept(search_results) == FallbackSolution(search_results)

\* SolutionGenerator.generate_solution.
GenerateSolutionOf(model, llm, text, search_results) ==
    IF ~model THEN FallbackSolution(search_results)
    ELSE IF llm # "answers" THEN GenerateExcept(search_results)
    ELSE Solution(ParseSteps(text), "ai_generated", search_results, "gemini-pro")

\* The payload of /api/generate-solution (app.py:107-120); bound is whether
\* the module code of app.py got to create solution_generator.
Payload(bound, solution) ==
    IF ~bound THEN [steps |-> <<"Unable to generate AI solution">>, source |-> "error",
                    error |-> "NameError"]
    ELSE IF solution.raised
    THEN [steps |-> <<"Unable to generate AI solution">>, source |-> "error",
          error |-> solution.error]
    ELSE [steps |-> solution.steps, source |-> solution.source, error |-> ""]

\* POST /api/generate-solution.
GenerateSolution(bound, api_key, genai_ok, llm, text, search_results) ==
    /\ call.op = "none"
    /\ LET model == GeneratorModel(api_key, genai_ok)
           solution == GenerateSolutionOf(model, llm, text, search_results)
       IN call' = [op |-> "generate", bound |-> bound, model |-> model, llm |-> llm,
                   text |-> text, results |-> search_results, solution |-> solution,
                   payload |-> Payload(bound, solution)]
    /\ UNCHANGED <<sIncidents, sKbs, sHits, sIds, sOut, predictor>>
    /\ UNCHANGED lifeVars

NextSolution ==
    \E bound, api_key, genai_ok \in BOOLEAN, llm \in LlmOutcomes,
       search_results \in Requests :
        \E text \in (IF bound /\ api_key /\ genai_ok /\ llm = "answers"
                     THEN AnswerTexts ELSE {<<>>}) :
            GenerateSolution(bound, api_key, genai_ok, llm, text, search_results)

SpecSolution == InitIdle /\ [][NextSolution]_vars

----
\* The claims about the solution generator (checked under SpecSolution).

\* C14: generate_solution raises nothing because of the LLM: with no model,
\* or when the LLM call or the reading of its answer raises, it returns what
\* _fallback_solution returns (source 'aggregated', model 'fallback');
\* 'ai_generated' is returned only when the LLM answered; the payload of
\* /api/generate-solution has source 'error' whenever anything was raised.
C14_FallbackOnLlmFailure ==
    call.op = "generate" =>
        /\ (~call.model \/ call.llm # "answers") =>
              /\ call.solution = FallbackSolution(call.results)
              /\ ~call.solution.raised =>
                    /\ call.solution.source = "aggregated"
                    /\ call.solution.model = "fallback"
              /\ call.solution.raised => call.solution.error = "TypeError"
        /\ (~call.solution.raised /\ call.solution.source = "ai_generated")
              => (call.model /\ call.llm = "answers")
        /\ (call.model /\ call.llm = "answers") => ~call.solution.raised
        /\ (~call.bound \/ call.solution.raised) <=> call.payload.source = "error"
        /\ (call.bound /\ ~call.solution.raised)
              => call.payload.source = call.solution.source

\* C14's case: the call of the LLM raised and the aggregated fallback of two
\* steps was returned.
C14_Witness ==
    /\ call.op = "generate"
    /\ call.model
    /\ call.llm = "call_raises"
    /\ ~call.solution.raised
    /\ call.solution.source = "aggregated"
    /\ Len(call.solution.steps) = 2
    /\ call.payload.source = "aggregated"

\* C15: every solution generate_solution returns and every payload of
\* /api/generate-solution holds at most 5 steps.
C15_AtMostFiveSteps ==
    call.op = "generate" =>
        /\ ~call.solution.raised => Len(call.solution.steps) <= MaxSteps
        /\ Len(call.payload.steps) <= MaxSteps

\* C15's case: the LLM answered six lines that are steps, and five were kept.
C15_Witness ==
    /\ call.op = "generate"
    /\ call.solution.source = "ai_generated"
    /\ Len(StepsOfLines(Split(Strip(call.text), "\n"))) = 6
    /\ Len(call.payload.steps) = 5

----
\* The severity predictor: SeverityPredictor and /api/predict/severity. A
\* model, a vectorizer or a saved file is the number of the training that
\* made it, 0 when there is none.

\* Trainings that fit a model.
MaxTrainings == 2
\* Descriptions given to predict_batch.
MaxBatch == 2

\* The models directory when the predictor is constructed: empty; a model
\* and a vectorizer saved by an earlier training; the same with a vectorizer
\* file pickle cannot load; the model file alone.
ModelDirs == {"empty", "saved", "bad_vectorizer", "model_only"}

\* SeverityPredictor.__init__ and load_model.
NewPredictor(dir) ==
    [model |-> IF dir \in {"saved", "bad_vectorizer"} THEN 1 ELSE 0,
     vectorizer |-> IF dir = "saved" THEN 1 ELSE 0,
     is_trained |-> dir = "saved",
     model_file |-> IF dir = "empty" THEN 0 ELSE 1,
     vectorizer_file |-> IF dir \in {"saved", "bad_vectorizer"} THEN 1 ELSE 0,
     metadata_file |-> IF dir = "saved" THEN 1 ELSE 0,
     trainings |-> 1]

\* The first test of train() without is_trained.
SkipsTrainingUnlessForced(is_trained, retrain) == ~retrain

\* The first test of train() (line 47).
SkipsTraining(is_trained, retrain) == is_trained /\ ~retrain

\* Where a training ends: reading the data raises, the split or the fit
\* raises (the vectorizer is new), the evaluation raises (the model is new
\* too), save_model raises after it wrote the model file (is_trained is set),
\* or it returns.
TrainEnds == {"data_raises", "fit_raises", "evaluate_raises", "save_raises", "returns"}

\* The predictor after train() got to `ends` (lines 51-121).
Trained(p, ends) ==
    LET id == p.trainings + 1
    IN IF ends = "data_raises" THEN p
       ELSE IF ends = "fit_raises" THEN [p EXCEPT !.vectorizer = id, !.trainings = id]
       ELSE IF ends = "evaluate_raises"
       THEN [p EXCEPT !.vectorizer = id, !.model = id, !.trainings = id]
       ELSE IF ends = "save_raises"
       THEN [p EXCEPT !.vectorizer = id, !.model = id, !.is_trained = TRUE,
                      !.model_file = id, !.trainings = id]
       ELSE [p EXCEPT !.vectorizer = id, !.model = id, !.is_trained = TRUE,
                      !.model_file = id, !.vectorizer_file = id, !.metadata_file = id,
                      !.trainings = id]

\* SeverityPredictor.train(df, retrain).
Train(retrain, ends) ==
    /\ predictor.trainings <= MaxTrainings
    /\ IF SkipsTraining(predictor.is_trained, retrain)
       THEN /\ ends = "returns"
            /\ predictor' = predictor
            /\ call' = [op |-> "train", retrain |-> retrain, before |-> predictor,
                        raised |-> FALSE, status |-> "already_trained"]
       ELSE /\ predictor' = Trained(predictor, ends)
            /\ call' = [op |-> "train", retrain |-> retrain, before |-> predictor,
                        raised |-> ends # "returns", status |-> "results"]
    /\ UNCHANGED <<sIncidents, sKbs, sHits, sIds, sOut>>
    /\ UNCHANGED lifeVars

\* predict() testing the model instead of is_trained.
PredictOfModel(p, works) ==
    IF p.model = 0
    THEN [raised |-> FALSE, error |-> "Model not trained. Please train the model first.",
          severity |-> "Unknown", confidence |-> 0, touched |-> FALSE]
    ELSE IF works
    THEN [raised |-> FALSE, error |-> "", severity |-> "High", confidence |-> 1,
          touched |-> TRUE]
    ELSE [raised |-> TRUE, error |-> "Exception", severity |-> "", confidence |-> 0,
          touched |-> TRUE]

\* SeverityPredictor.predict; works: the vectorizer and the model raise
\* nothing. A confidence is 0 or 1 for 0.0 and a probability.
PredictOf(p, works) ==
    IF ~p.is_trained
    THEN [raised |-> FALSE, error |-> "Model not trained. Please train the model first.",
          severity |-> "Unknown", confidence |-> 0, touched |-> FALSE]
    ELSE IF works
    THEN [raised |-> FALSE, error |-> "", severity |-> "High", confidence |-> 1,
          touched |-> TRUE]
    ELSE [raised |-> TRUE, error |-> "Exception", severity |-> "", confidence |-> 0,
          touched |-> TRUE]

\* SeverityPredictor.predict_batch for n descriptions.
PredictBatchOf(p, n, works) ==
    IF ~p.is_trained
    THEN [raised |-> FALSE, touched |-> FALSE,
          list |-> [i \in 1..n |-> [error |-> "Model not trained", severity |-> ""]]]
    ELSE IF works
    THEN [raised |-> FALSE, touched |-> TRUE,
          list |-> [i \in 1..n |-> [error |-> "", severity |-> "High"]]]
    ELSE [raised |-> TRUE, touched |-> TRUE, list |-> <<>>]

\* SeverityPredictor.get_model_info: its status.
GetModelInfoOf(p) == IF ~p.is_trained THEN "not_trained" ELSE "trained"

\* The answer of /api/predict/severity (app.py:186-190); bound is whether
\* the module code of app.py got to create severity_predictor.
PredictSeverityAnswer(bound, prediction) ==
    IF ~bound THEN [propagated |-> FALSE, error |-> "NameError", severity |-> "Unknown"]
    ELSE IF prediction.raised
    THEN [propagated |-> FALSE, error |-> prediction.error, severity |-> "Unknown"]
    ELSE [propagated |-> FALSE, error |-> prediction.error,
          severity |-> prediction.severity]

\* POST /api/predict/severity.
PredictSeverity(bound, works) ==
    /\ call' = [op |-> "predict", bound |-> bound,
                prediction |-> PredictOf(predictor, works),
                answer |-> PredictSeverityAnswer(bound, PredictOf(predictor, works))]
    /\ UNCHANGED predictor
    /\ UNCHANGED <<sIncidents, sKbs, sHits, sIds, sOut>>
    /\ UNCHANGED lifeVars

\* predict_batch(descriptions).
PredictBatch(n, works) ==
    /\ call' = [op |-> "predict_batch", n |-> n,
                batch |-> PredictBatchOf(predictor, n, works)]
    /\ UNCHANGED predictor
    /\ UNCHANGED <<sIncidents, sKbs, sHits, sIds, sOut>>
    /\ UNCHANGED lifeVars

\* get_model_info().
GetModelInfo ==
    /\ call' = [op |-> "model_info", status |-> GetModelInfoOf(predictor)]
    /\ UNCHANGED predictor
    /\ UNCHANGED <<sIncidents, sKbs, sHits, sIds, sOut>>
    /\ UNCHANGED lifeVars

InitSeverity ==
    /\ InitStore
    /\ files = [f \in DATA_FILES |->
                  IF f = "patterns.csv" THEN AbsentFile
                  ELSE [exists |-> TRUE, mtime |-> 0, rows |-> 1]]
    /\ sIncidents = <<>>
    /\ sKbs = <<>>
    /\ sHits = <<>>
    /\ sIds = {}
    /\ sOut = [op |-> "none", res |-> <<>>]
    /\ call = NoCall
    /\ \E dir \in ModelDirs : predictor = NewPredictor(dir)
    /\ budget = 0
    /\ deploy = [samePaths |-> TRUE, fIndex |-> NoFile, fMeta |-> NoFile]
    /\ ctor = NoCtor
    /\ proc = [p \in Procs |-> IdleProc]

NextSeverity ==
    \/ \E retrain \in BOOLEAN, ends \in TrainEnds : Train(retrain, ends)
    \/ \E bound, works \in BOOLEAN : PredictSeverity(bound, works)
    \/ \E n \in 0..MaxBatch, works \in BOOLEAN : PredictBatch(n, works)
    \/ GetModelInfo

SpecSeverity == InitSeverity /\ [][NextSeverity]_vars

----
\* The claims about the severity predictor (checked under SpecSeverity).

\* C16: while is_trained is False, predict() returns the error dict with
\* severity 'Unknown' and confidence 0.0 and leaves the model alone,
\* predict_batch returns one error entry per description, get_model_info
\* reports 'not_trained'; /api/predict/severity propagates no exception and
\* answers an error with severity 'Unknown' instead.
C16_NotTrainedAnswers ==
    /\ (call.op = "predict" /\ ~predictor.is_trained) =>
          /\ ~call.prediction.raised
          /\ call.prediction.error # ""
          /\ call.prediction.severity = "Unknown"
          /\ call.prediction.confidence = 0
          /\ ~call.prediction.touched
    /\ call.op = "predict" =>
          /\ ~call.answer.propagated
          /\ (~call.bound \/ call.prediction.raised) =>
                (call.answer.error # "" /\ call.answer.severity = "Unknown")
    /\ (call.op = "predict_batch" /\ ~predictor.is_trained) =>
          /\ ~call.batch.raised
          /\ ~call.batch.touched
          /\ Len(call.batch.list) = call.n
          /\ \A i \in 1..call.n : call.batch.list[i].error # ""
    /\ (call.op = "model_info" /\ ~predictor.is_trained) => call.status = "not_trained"

\* C16's case: predict() on a predictor whose model was fitted by a training
\* that then raised, so that is_trained is still False.
C16_Witness ==
    /\ call.op = "predict"
    /\ ~predictor.is_trained
    /\ predictor.model # 0
    /\ call.prediction.severity = "Unknown"
    /\ ~call.prediction.touched

\* C17: train() with is_trained True and retrain False returns
\* 'already_trained' and leaves the model, the vectorizer, is_trained and the
\* saved files as they were; a call of train() changes them only with
\* retrain=True or on a predictor not yet trained.
C17_TrainSkipsWhenTrained ==
    call.op = "train" =>
        /\ (call.before.is_trained /\ ~call.retrain) =>
              /\ ~call.raised
              /\ call.status = "already_trained"
              /\ predictor = call.before
        /\ predictor # call.before => (call.retrain \/ ~call.before.is_trained)
        /\ call.status = "already_trained" => (call.before.is_trained /\ ~call.retrain)

\* C17's case: train() is called without retrain on a predictor a training
\* of this run has trained.
C17_Witness ==
    /\ call.op = "train"
    /\ ~call.retrain
    /\ call.before.is_trained
    /\ call.before.model > 1
    /\ call.status = "already_trained"
    /\ predictor = call.before

----
\* The transformation pipeline: transform_verizon_data.py writes incidents.csv
\* and the kb_articles.csv it derives from the incidents.

\* The characters of an application's name.
Chars(application) ==
    IF application = "Login" THEN <<"L", "o", "g", "i", "n">>
    ELSE <<"P", "a", "y", "m", "e", "n", "t", "s">>

\* The title with the root cause left out.
KbTitleOfApplication(application, root_cause) ==
    <<"H", "o", "w", " ", "t", "o", " ", "r", "e", "s", "o", "l", "v", "e", " ">>
    \o <<"i", "n", " ">> \o Chars(application)

\* f"How to resolve {root_cause} in {application}" (line 258).
KbTitle(application, root_cause) ==
    <<"H", "o", "w", " ", "t", "o", " ", "r", "e", "s", "o", "l", "v", "e", " ">>
    \o root_cause \o <<" ", "i", "n", " ">> \o Chars(application)

\* The keys of groupby(['application', 'root_cause']) in its sorted order:
\* "Login" before "Payments", "Ab" before "bb".
GroupKeys ==
    << <<"Login", <<"A", "b">> >>, <<"Login", <<"b", "b">> >>,
       <<"Payments", <<"A", "b">> >>, <<"Payments", <<"b", "b">> >> >>

\* create_kb_articles: a row for every group of the incidents, numbered in
\* the order of the groups.
CreateKbArticles(incidents_df) ==
    LET isgroup(key) == key \in AppRootPairs(incidents_df)
        grouped == SelectSeq(GroupKeys, isgroup)
    IN [i \in 1..Len(grouped) |->
          [kb_id |-> KbId(i), application |-> grouped[i][1],
           title |-> KbTitle(grouped[i][1], grouped[i][2])]]

\* The incidents create_incidents_from_verizon may make: at least one row
\* (groupby raises on a frame without columns).
PipelineTables == {t \in IncidentTables : Len(t) > 0}

InitPipeline ==
    /\ InitStore
    /\ \E ti \in PipelineTables :
         /\ sIncidents = IncidentRows(ti)
         /\ sKbs = CreateKbArticles(IncidentRows(ti))
         /\ files = [f \in DATA_FILES |->
                       IF f = "patterns.csv" THEN AbsentFile
                       ELSE [exists |-> TRUE, mtime |-> 0,
                             rows |-> IF f = "incidents.csv" THEN Len(ti)
                                      ELSE Len(CreateKbArticles(IncidentRows(ti)))]]
    /\ sHits = <<>>
    /\ sIds = {}
    /\ sOut = [op |-> "none", res |-> <<>>]
    /\ call = NoCall
    /\ predictor = NoPredictor
    /\ budget = 0
    /\ deploy = [samePaths |-> TRUE, fIndex |-> NoFile, fMeta |-> NoFile]
    /\ ctor = NoCtor
    /\ proc = [p \in Procs |-> IdleProc]

NextPipeline == \E ids \in SUBSET IncidentIds : GetMappedKbArticles(ids)

SpecPipeline == InitPipeline /\ [][NextPipeline]_vars

----
\* The claim about the pipeline's dataset (checked under SpecPipeline).

\* C18: on the dataset of the pipeline, get_mapped_kb_articles returns at
\* least one KB article for every non-empty set of ids of existing incidents,
\* and every KB article it returns has the application of an incident with
\* one of the ids.
C18_PipelineIncidentsHaveKbs ==
    sOut.op = "mapped" =>
        LET existing == {sIncidents[i].incident_id : i \in 1..Len(sIncidents)}
        IN /\ (sIds # {} /\ sIds \subseteq existing) => Len(sOut.res) >= 1
           /\ \A j \in 1..Len(sOut.res) :
                 \E i \in 1..Len(sIncidents) :
                    /\ sIncidents[i].incident_id \in sIds
                    /\ sOut.res[j].application = <<sIncidents[i].application>>

\* C18's case: two incidents with the same root cause in two applications;
\* asked for one of them, get_mapped_kb_articles returns the one KB article
\* of its application.
C18_Witness ==
    /\ sOut.op = "mapped"
    /\ Len(sIncidents) = 2
    /\ sIncidents[1].root_cause = sIncidents[2].root_cause
    /\ sIncidents[1].application # sIncidents[2].application
    /\ Len(sKbs) = 2
    /\ sIds = {sIncidents[2].incident_id}
    /\ Len(sOut.res) = 1
    /\ sOut.res[1].application = <<sIncidents[2].application>>

====
